---------------------------- MODULE Spec2Model ----------------------------
(***************************************************************************)
(* luBoard: contest scoreboard.                                            *)
(*   src/data_parser.py  calculate_final_board_state (the resolver)        *)
(*   src/app.py          CONTEST_STATE and the request handlers            *)
(* Two specifications share the variables:                                 *)
(*   SpecResolve  one call of calculate_final_board_state, statement by    *)
(*                statement, on a bounded log;                             *)
(*   Spec         the running application: load, then /update, /add_team   *)
(*                and /reset requests.                                     *)
(***************************************************************************)
EXTENDS Integers, Sequences, FiniteSets, TLC

VARIABLES
    teams,          \* dict team_id -> info, kept as the sequence of its values in insertion order
    problems,       \* dict prob_id -> penalty_time (a function)
    submissions,    \* list of submission records {team_id, prob_id, time, status}
    pc,             \* position: "sort" | "walk" | "build" | "done" (resolver), "serving" (application)
    idx,            \* index of the next submission of the walk (data_parser.py:45)
    final_statuses, \* dict (team_id, prob_id) -> accumulator (data_parser.py:44)
    baseline,       \* the returned <<problem_ids, initial_board>> (data_parser.py:104)
    CONTEST_STATE,  \* app.py:11 (contest_start_time, a wall-clock stamp nobody reads, is left out)
    injected,       \* the forms posted to /update since the board was last loaded or reset
    log,            \* contest.dat as it was read: whether it was found, and its submission
                    \* lines in file order (data_parser.py:130, 152-156)
    sorting,        \* the items list.sort holds while the list it sorts is empty (app.py:140)
    observed        \* what the last /api/board request returned (app.py:165)

vars == <<teams, problems, submissions, pc, idx, final_statuses, baseline,
          CONTEST_STATE, injected, log, sorting, observed>>

---------------------------------------------------------------------------
(* Bounds of the model *)

MaxLen == 3        \* longest log of SpecResolve
MaxInject == 2     \* /update posts between two loads/resets
MaxTeams == 3      \* rows on the board

(* Problem ids in Python's string order; "Z" is an id no contest defines. *)
ProbOrder == <<"A", "B", "Z">>

---------------------------------------------------------------------------
(* Generic helpers *)

Range(s) == {s[i] : i \in 1..Len(s)}

Front(s) == SubSeq(s, 1, Len(s) - 1)

Last(s) == s[Len(s)]

RECURSIVE SumOver(_, _)
SumOver(S, f) ==
    IF S = {} THEN 0
    ELSE LET x == CHOOSE y \in S : TRUE IN f[x] + SumOver(S \ {x}, f)

Max(S) == CHOOSE x \in S : \A y \in S : y <= x

Min(S) == CHOOSE x \in S : \A y \in S : x <= y

---------------------------------------------------------------------------
(* Python string conversions used on the display symbol.  A string is a    *)
(* sequence of one-character strings.                                      *)

Digits == <<"0", "1", "2", "3", "4", "5", "6", "7", "8", "9">>

DigitVal(c) == (CHOOSE d \in 1..10 : Digits[d] = c) - 1

\* str(n) for n >= 0
RECURSIVE Str(_)
Str(n) == IF n < 10 THEN <<Digits[n + 1]>>
          ELSE Str(n \div 10) \o <<Digits[(n % 10) + 1]>>

\* int(s) for a non-empty string of digits
RECURSIVE IntOf(_)
IntOf(s) == IF Len(s) = 1 THEN DigitVal(s[1])
            ELSE 10 * IntOf(Front(s)) + DigitVal(Last(s))

\* s.replace(c, '')
Replace(s, c) == SelectSeq(s, LAMBDA x : x # c)

\* c in s
In(c, s) == \E i \in 1..Len(s) : s[i] = c

---------------------------------------------------------------------------
(* data_parser.py: calculate_final_board_state *)

\* the accumulator a pair gets at its first counted submission
DefaultStatus ==
    [attempts_before_ac |-> 0, is_ac |-> FALSE, solved_time |-> -1,
     penalty |-> 0, effective_last_sub_time |-> -1]

TeamIds(tms) == {tms[i].id : i \in 1..Len(tms)}

\* SortByTime with the sort call left out
SortByTimeNone(s) == s

\* SortByTime by a sort that is not stable: a line goes before the lines of its time
RECURSIVE SortByTimeUnstable(_)
SortByTimeUnstable(s) ==
    IF s = <<>> THEN <<>>
    ELSE LET r == SortByTimeUnstable(SubSeq(s, 1, Len(s) - 1))
             x == s[Len(s)]
             k == Cardinality({i \in 1..Len(r) : r[i].time < x.time})
         IN  SubSeq(r, 1, k) \o <<x>> \o SubSeq(r, k + 1, Len(r))

\* submissions.sort(key=lambda x: x['time']): Python's sort is stable
RECURSIVE SortByTime(_)
SortByTime(s) ==
    IF s = <<>> THEN <<>>
    ELSE LET r == SortByTime(Front(s))
             x == Last(s)
             k == Cardinality({i \in 1..Len(r) : r[i].time <= x.time})
         IN  SubSeq(r, 1, k) \o <<x>> \o SubSeq(r, k + 1, Len(r))

\* total_attempts_map.get((team_id, p_id), 0): every submission of the pair counts
TotalAttempts(subs, t, p) ==
    Cardinality({i \in 1..Len(subs) : subs[i].team_id = t /\ subs[i].prob_id = p})

\* Known with the team test forgotten
KnownProblemOnly(sub, tms, probs) == sub.prob_id \in DOMAIN probs

\* the guard "team_id not in teams or prob_id not in problems: continue", negated
Known(sub, tms, probs) ==
    sub.team_id \in TeamIds(tms) /\ sub.prob_id \in DOMAIN probs

\* sub['status'] in ('OK', 'AC')
IsAccepted(status) == status \in {"OK", "AC"}

\* StillOpen with the acceptance test forgotten
StillOpenAlways(st) == TRUE

\* "if not status['is_ac']": only a still-open pair processes the submission
StillOpen(st) == ~st.is_ac

\* AcPenalty with the seconds not floored to minutes
AcPenaltyInSeconds(sub, st, probs) ==
    sub.time + st.attempts_before_ac * probs[sub.prob_id]

\* solved_time_min + attempts_before_ac * penalty_per_wa
AcPenalty(sub, st, probs) ==
    (sub.time \div 60) + st.attempts_before_ac * probs[sub.prob_id]

\* the body of "if not status['is_ac']"
ApplySub(st, sub, probs) ==
    LET touched == [st EXCEPT !.effective_last_sub_time = sub.time]
    IN  IF IsAccepted(sub.status)
        THEN [touched EXCEPT !.is_ac = TRUE,
                             !.solved_time = sub.time,
                             !.penalty = AcPenalty(sub, st, probs)]
        ELSE [touched EXCEPT !.attempts_before_ac = st.attempts_before_ac + 1]

\* one iteration of the walk over the sorted submissions
ProcessSub(fs, sub, tms, probs) ==
    IF ~Known(sub, tms, probs) THEN fs
    ELSE LET key == <<sub.team_id, sub.prob_id>>
             st == IF key \in DOMAIN fs THEN fs[key] ELSE DefaultStatus
         IN  (key :> (IF StillOpen(st) THEN ApplySub(st, sub, probs) ELSE st)) @@ fs

RECURSIVE WalkFrom(_, _, _, _, _)
WalkFrom(fs, subs, i, tms, probs) ==
    IF i > Len(subs) THEN fs
    ELSE WalkFrom(ProcessSub(fs, subs[i], tms, probs), subs, i + 1, tms, probs)

\* sorted(problems.keys())
ProblemIds(probs) == SelectSeq(ProbOrder, LAMBDA p : p \in DOMAIN probs)

\* BuildCell that takes every pair with a status for accepted
BuildCellAnyStatus(fs, subs, t, p) ==
    LET fin == IF <<t, p>> \in DOMAIN fs THEN fs[<<t, p>>] ELSE DefaultStatus
    IN  [display |-> <<>>, solved_time |-> 0, penalty |-> 0, last_submission_time |-> -1,
         final_is_ac |-> <<t, p>> \in DOMAIN fs,
         final_solved_time |-> fin.solved_time,
         final_penalty |-> fin.penalty,
         final_attempts_to_ac |-> IF fin.is_ac THEN fin.attempts_before_ac + 1
                                  ELSE fin.attempts_before_ac,
         final_effective_last_sub_time |-> fin.effective_last_sub_time,
         final_total_attempts |-> TotalAttempts(subs, t, p)]

\* one status cell of the returned board
BuildCell(fs, subs, t, p) ==
    LET fin == IF <<t, p>> \in DOMAIN fs THEN fs[<<t, p>>] ELSE DefaultStatus
    IN  [display |-> <<>>, solved_time |-> 0, penalty |-> 0, last_submission_time |-> -1,
         final_is_ac |-> fin.is_ac,
         final_solved_time |-> fin.solved_time,
         final_penalty |-> fin.penalty,
         final_attempts_to_ac |-> IF fin.is_ac THEN fin.attempts_before_ac + 1
                                  ELSE fin.attempts_before_ac,
         final_effective_last_sub_time |-> fin.effective_last_sub_time,
         final_total_attempts |-> TotalAttempts(subs, t, p)]

\* f"{school} - {name}" if school else name
TeamLabel(info) ==
    IF info.school # "" THEN <<info.school, " - ", info.name>> ELSE <<info.name>>

BuildRow(fs, subs, info, probs) ==
    [team_id |-> info.id, rank |-> 0, team |-> TeamLabel(info),
     solved |-> 0, penalty |-> 0,
     status |-> [p \in DOMAIN probs |-> BuildCell(fs, subs, info.id, p)]]

BuildBoard(fs, subs, tms, probs) ==
    [i \in 1..Len(tms) |-> BuildRow(fs, subs, tms[i], probs)]

\* the whole call, on the list as the caller holds it
Resolve(tms, probs, subs) ==
    LET s == SortByTime(subs)
    IN  <<ProblemIds(probs), BuildBoard(WalkFrom(<<>>, s, 1, tms, probs), s, tms, probs)>>

---------------------------------------------------------------------------
(* The contests the specifications start from *)

Team(i, school, name) == [id |-> i, school |-> school, name |-> name]

Sub(t, p, time, status) == [team_id |-> t, prob_id |-> p, time |-> time, status |-> status]

\* team 2 never submits; team 9 is in no team list
ResolveTeams == <<Team(1, "U", "one"), Team(2, "", "two")>>

ResolveProblems == ("A" :> 20) @@ ("B" :> 10)

\* (team, problem) of a log line: two known pairs, an unknown team, an unknown problem
LogPairs == {<<1, "A">>, <<1, "B">>, <<9, "A">>, <<1, "Z">>}

LogTimes == {60, 200}

LogStatuses == {"OK", "WA"}

\* lines of a third, later time for pair (1, A)
LogLate == {Sub(1, "A", 300, s) : s \in LogStatuses}

LogLines ==
    {Sub(k[1], k[2], t, s) : k \in LogPairs, t \in LogTimes, s \in LogStatuses} \cup LogLate

RECURSIVE SeqsUpTo(_, _)
SeqsUpTo(S, n) ==
    IF n = 0 THEN {<<>>}
    ELSE LET shorter == SeqsUpTo(S, n - 1)
         IN  shorter \cup {Append(s, x) : s \in {q \in shorter : Len(q) = n - 1}, x \in S}

NoBoard == [problem_ids |-> <<>>, board_data |-> <<>>, original_data |-> <<>>,
            submissions_per_problem |-> <<>>, statistics |-> <<>>]

---------------------------------------------------------------------------
(* SpecResolve: one call of calculate_final_board_state *)

InitResolve ==
    /\ teams = ResolveTeams
    /\ problems = ResolveProblems
    /\ submissions \in SeqsUpTo(LogLines, MaxLen)
    /\ log = [found |-> TRUE, lines |-> submissions]
    /\ sorting = <<>>
    /\ observed = <<>>
    /\ pc = "sort"
    /\ idx = 0
    /\ final_statuses = <<>>
    /\ baseline = <<>>
    /\ CONTEST_STATE = NoBoard
    /\ injected = <<>>

\* line 35: the caller's list is sorted in place
ResolveSort ==
    /\ pc = "sort"
    /\ submissions' = SortByTime(submissions)
    /\ pc' = "walk"
    /\ idx' = 1
    /\ UNCHANGED <<log, sorting, observed, teams, problems, final_statuses, baseline, CONTEST_STATE, injected>>

\* lines 45-73: one submission of the walk
ResolveStep ==
    /\ pc = "walk"
    /\ idx <= Len(submissions)
    /\ final_statuses' = ProcessSub(final_statuses, submissions[idx], teams, problems)
    /\ idx' = idx + 1
    /\ UNCHANGED <<log, sorting, observed, teams, problems, submissions, pc, baseline, CONTEST_STATE, injected>>

\* lines 75-104: build and return the board
ResolveBuild ==
    /\ pc = "walk"
    /\ idx > Len(submissions)
    /\ baseline' = <<ProblemIds(problems),
                     BuildBoard(final_statuses, submissions, teams, problems)>>
    /\ pc' = "done"
    /\ UNCHANGED <<log, sorting, observed, teams, problems, submissions, idx, final_statuses, CONTEST_STATE,
                   injected>>

NextResolve == ResolveSort \/ ResolveStep \/ ResolveBuild

SpecResolve == InitResolve /\ [][NextResolve]_vars

---------------------------------------------------------------------------
(* app.py: calculate_statistics *)

\* ShowsAccepted counting every cell that shows a symbol
ShowsAttempted(cell) == In("+", cell.display) \/ In("-", cell.display)

\* '+' in prob_info['display']
ShowsAccepted(cell) == In("+", cell.display)

\* '-' in prob_info['display']
ShowsRejected(cell) == In("-", cell.display)

\* f"{count / total * 100:.0f}" and f"{a / b:.2f}" (scaled by 100): the quotient
\* 100 * c / n rounded to the nearest integer, halves to the even one
RoundedPercent(c, n) ==
    LET q == (100 * c) \div n
        twice == 2 * ((100 * c) % n)
    IN  IF twice < n THEN q
        ELSE IF twice > n THEN q + 1
        ELSE IF q % 2 = 0 THEN q ELSE q + 1

Null == <<"N", "u", "l", "l">>

NaN == <<"N", "a", "N">>

RowOrder == <<"Submitted", "Attempted", "Accepted", "Dirt", "SE", "First Solved", "Last Solved">>

\* stats['Submitted'][pid] after step 1
SubmittedCount(spp, pid) == IF pid \in DOMAIN spp THEN spp[pid] ELSE 0

StatEntry(row_name, pid, board, spp) ==
    LET submitted == SubmittedCount(spp, pid)
        attempted == Cardinality({i \in 1..Len(board) :
                         \/ ShowsAccepted(board[i].status[pid])
                         \/ ShowsRejected(board[i].status[pid])})
        acRows == {i \in 1..Len(board) : ShowsAccepted(board[i].status[pid])}
        accepted == Cardinality(acRows)
        dirt == Cardinality({i \in acRows : board[i].status[pid].display # <<"+">>})
        times == {board[i].status[pid].solved_time : i \in acRows}
    IN  CASE row_name = "Submitted" -> Str(submitted)
          [] row_name = "Attempted" ->
                <<attempted, IF submitted > 0 THEN RoundedPercent(attempted, submitted) ELSE 0>>
          [] row_name = "Accepted" ->
                <<accepted, IF submitted > 0 THEN RoundedPercent(accepted, submitted) ELSE 0>>
          [] row_name = "Dirt" ->
                <<dirt, IF attempted > 0 THEN Str(RoundedPercent(dirt, attempted)) ELSE NaN>>
          [] row_name = "SE" ->
                IF attempted > 0 THEN RoundedPercent(accepted, attempted) ELSE 0
          [] row_name = "First Solved" -> IF times = {} THEN Null ELSE Str(Min(times))
          [] row_name = "Last Solved" -> IF times = {} THEN Null ELSE Str(Max(times))

calculate_statistics(cs) ==
    IF cs.board_data = <<>> \/ cs.problem_ids = <<>> THEN <<>>
    ELSE [r \in Range(RowOrder) |->
            [pid \in Range(cs.problem_ids) |->
                StatEntry(r, pid, cs.board_data, cs.submissions_per_problem)]]

---------------------------------------------------------------------------
(* app.py: recalculate_board *)

\* lines 131-139: solved count and total penalty of one row, from its cells
Totals(row) ==
    LET ac == {pid \in DOMAIN row.status : ShowsAccepted(row.status[pid])}
    IN  [row EXCEPT !.solved = Cardinality(ac),
                    !.penalty = SumOver(ac, [pid \in ac |-> row.status[pid].penalty])]

\* KeyLE with the solved count left out of the key
KeyLEPenaltyOnly(a, b) == a.penalty <= b.penalty

\* the sort key (-solved, penalty), compared as Python compares tuples
KeyLE(a, b) ==
    \/ a.solved > b.solved
    \/ a.solved = b.solved /\ a.penalty <= b.penalty

\* board_data.sort(key=...): stable
RECURSIVE SortBoard(_)
SortBoard(b) ==
    IF b = <<>> THEN <<>>
    ELSE LET r == SortBoard(Front(b))
             x == Last(b)
             k == Cardinality({i \in 1..Len(r) : KeyLE(r[i], x)})
         IN  SubSeq(r, 1, k) \o <<x>> \o SubSeq(r, k + 1, Len(r))

\* RankAt counting the tie groups instead of the rows: rank += 1 in place of rank = i + 1
RECURSIVE RankAtDense(_, _)
RankAtDense(b, i) ==
    IF i = 0 THEN 0
    ELSE LET last_solved == IF i = 1 THEN -1 ELSE b[i - 1].solved
             last_penalty == IF i = 1 THEN -1 ELSE b[i - 1].penalty
         IN  IF b[i].solved # last_solved \/ b[i].penalty # last_penalty
             THEN RankAtDense(b, i - 1) + 1 ELSE RankAtDense(b, i - 1)

\* lines 142-150: the rank the loop leaves in row i
RECURSIVE RankAt(_, _)
RankAt(b, i) ==
    IF i = 0 THEN 0
    ELSE LET last_solved == IF i = 1 THEN -1 ELSE b[i - 1].solved
             last_penalty == IF i = 1 THEN -1 ELSE b[i - 1].penalty
         IN  IF b[i].solved # last_solved \/ b[i].penalty # last_penalty
             THEN i ELSE RankAt(b, i - 1)

AssignRanks(b) == [i \in 1..Len(b) |-> [b[i] EXCEPT !.rank = RankAt(b, i)]]

recalculate_board(cs) ==
    LET sorted == SortBoard([i \in 1..Len(cs.board_data) |-> Totals(cs.board_data[i])])
        stats == calculate_statistics([cs EXCEPT !.board_data = sorted])
    IN  [cs EXCEPT !.board_data = AssignRanks(sorted), !.statistics = stats]

---------------------------------------------------------------------------
(* app.py: load_and_initialize_board *)

\* app.py:116 binds three names to what parse_contest_data returns; that function,
\* as it is in data_parser.py, returns five values.  The first two are bound as
\* named; submissions_per_problem is what calculate_statistics reads it as: for
\* each problem id of the log, the number of its submissions.
SubmissionsPerProblem(subs) ==
    [pid \in {subs[i].prob_id : i \in 1..Len(subs)} |->
        Cardinality({i \in 1..Len(subs) : subs[i].prob_id = pid})]

load_and_initialize_board(tms, probs, subs) ==
    LET parsed == Resolve(tms, probs, subs)
    IN  recalculate_board(
            [problem_ids |-> parsed[1],
             board_data |-> parsed[2],
             original_data |-> parsed[2],
             submissions_per_problem |-> SubmissionsPerProblem(subs),
             statistics |-> <<>>])

---------------------------------------------------------------------------
(* app.py: the request handlers *)

\* int(request.form.get('solved_time_min', 0)), 0 when the text is no number
IsNumber(raw) == raw # <<>> /\ \A i \in 1..Len(raw) : raw[i] \in Range(Digits)

ParseMinute(raw) == IF IsNumber(raw) THEN IntOf(raw) ELSE 0

\* int(display.replace('-', '')) if display else 0
AttemptsShown(display) == IF display # <<>> THEN IntOf(Replace(display, "-")) ELSE 0

\* the literal of app.py:199
penalty_per_wa == 20

\* PostAC with the solve time stored before the test for an accepted cell
PostACTimeFirst(cell, minute) ==
    IF ShowsAccepted(cell) THEN [cell EXCEPT !.solved_time = minute]
    ELSE LET attempts == AttemptsShown(cell.display)
         IN  [cell EXCEPT !.solved_time = minute,
                          !.display = <<"+">> \o (IF attempts > 0 THEN Str(attempts) ELSE <<>>),
                          !.penalty = minute + attempts * penalty_per_wa]

\* lines 189-205: an accepted result on a cell
PostAC(cell, minute) ==
    IF ShowsAccepted(cell) THEN cell
    ELSE LET attempts == AttemptsShown(cell.display)
         IN  [cell EXCEPT !.solved_time = minute,
                          !.display = <<"+">> \o (IF attempts > 0 THEN Str(attempts) ELSE <<>>),
                          !.penalty = minute + attempts * penalty_per_wa]

\* PostWA that marks the cell rejected without counting
PostWANoCount(cell) ==
    IF ShowsAccepted(cell) THEN cell
    ELSE [cell EXCEPT !.display = <<"-", "1">>]

\* lines 206-209: any other result on a cell
PostWA(cell) ==
    IF ShowsAccepted(cell) THEN cell
    ELSE [cell EXCEPT !.display = <<"-">> \o Str(AttemptsShown(cell.display) + 1)]

\* lines 180-184: the first row of the team, 0 when there is none
FindTeam(board, t) ==
    IF \E i \in 1..Len(board) : board[i].team_id = t
    THEN Min({i \in 1..Len(board) : board[i].team_id = t})
    ELSE 0

\* lines 180-209: the board after the cell of the post is rewritten in place
PatchBoard(cs, post) ==
    LET i == FindTeam(cs.board_data, post.team_id)
    IN  IF i # 0 /\ post.problem_id \in DOMAIN cs.board_data[i].status
        THEN [cs.board_data EXCEPT ![i].status[post.problem_id] =
                 IF post.result = "AC"
                 THEN PostAC(@, ParseMinute(post.solved_time_min))
                 ELSE PostWA(@)]
        ELSE cs.board_data

\* the POST branch of update_submission
update_submission(cs, post) ==
    recalculate_board([cs EXCEPT !.board_data = PatchBoard(cs, post)])

\* MaxTeamId taken to be the number of rows
MaxTeamIdByCount(board) == Len(board)

\* lines 223-226
MaxTeamId(board) == IF board = <<>> THEN 0 ELSE Max({0} \cup {board[i].team_id : i \in 1..Len(board)})

NewTeam(cs, name) ==
    [team_id |-> MaxTeamId(cs.board_data) + 1, rank |-> 999, team |-> <<name>>,
     solved |-> 0, penalty |-> 0,
     status |-> [pid \in Range(cs.problem_ids) |->
                    [display |-> <<>>, penalty |-> 0, solved_time |-> 0]]]

add_team(cs, name) ==
    IF name # "" THEN recalculate_board([cs EXCEPT !.board_data = Append(@, NewTeam(cs, name))])
    ELSE cs

\* reset_board without the recalculation
reset_board_copy_only(cs) == [cs EXCEPT !.board_data = cs.original_data]

reset_board(cs) == recalculate_board([cs EXCEPT !.board_data = cs.original_data])

\* GET /api/board: the JSON body, read from the global state as it is
api_board_data(cs) ==
    [problems |-> cs.problem_ids, board |-> cs.board_data, statistics |-> cs.statistics]

---------------------------------------------------------------------------
(* Spec: the running application *)

NoProblems == [p \in {} |-> 0]

\* the contest files the application is started on: no file (parse_contest_data
\* returns empty collections); the two-problem contest of the specification's scenario
\* with a second team; a one-team contest whose problem B costs 10 per wrong attempt
\* and whose log has a line of a team that is not registered; a contest whose only
\* team line carries the id -1 (line 145 takes any integer)
Contests ==
    { [found |-> FALSE, teams |-> <<>>, problems |-> NoProblems, submissions |-> <<>>],
      [found |-> TRUE, teams |-> <<Team(1, "U", "one"), Team(2, "", "two")>>,
       problems |-> ("A" :> 20) @@ ("B" :> 20),
       submissions |-> <<Sub(1, "A", 60, "WA"), Sub(1, "A", 200, "OK"),
                         Sub(1, "B", 300, "OK")>>],
      [found |-> TRUE, teams |-> <<Team(7, "", "seven")>>,
       problems |-> ("A" :> 20) @@ ("B" :> 10),
       submissions |-> <<Sub(9, "A", 200, "OK"), Sub(7, "A", 60, "WA")>>],
      [found |-> TRUE, teams |-> <<Team(-1, "", "guest")>>,
       problems |-> ("A" :> 20),
       submissions |-> <<>>] }

\* what the operator types into the minute field: a number, or something that is none
FormMinutes == {<<"5">>, <<"x">>}

Post(t, p, r, m) == [team_id |-> t, problem_id |-> p, result |-> r, solved_time_min |-> m]

\* the forms posted to /update: for every cell of the board an acceptance with either
\* minute text and a rejection; a problem the contest does not have; a team that is
\* not on the board
FormPosts(cs) ==
    LET ids == {cs.board_data[i].team_id : i \in 1..Len(cs.board_data)}
    IN  {Post(t, p, "AC", m) : t \in ids, p \in Range(cs.problem_ids), m \in FormMinutes}
        \cup {Post(t, p, "WA", <<"5">>) : t \in ids, p \in Range(cs.problem_ids)}
        \cup {Post(cs.board_data[i].team_id, "Z", "AC", <<"5">>) : i \in {1} \cap DOMAIN cs.board_data}
        \cup {Post(99, "A", "WA", <<"5">>)}

FormNames == {"", "NewTeam"}

Init ==
    /\ \E c \in Contests :
        /\ teams = c.teams
        /\ problems = c.problems
        /\ submissions = SortByTime(c.submissions)
        /\ baseline = Resolve(c.teams, c.problems, c.submissions)
        /\ CONTEST_STATE = load_and_initialize_board(c.teams, c.problems, c.submissions)
        /\ log = [found |-> c.found, lines |-> c.submissions]
    /\ sorting = <<>>
    /\ observed = <<>>
    /\ pc = "serving"
    /\ idx = 0
    /\ final_statuses = <<>>
    /\ injected = <<>>

UpdatePosted(post) ==
    /\ pc = "serving"
    /\ Len(injected) < MaxInject
    /\ injected' = Append(injected, post)
    /\ CONTEST_STATE' = update_submission(CONTEST_STATE, post)
    /\ UNCHANGED <<log, sorting, observed, teams, problems, submissions, pc, idx, final_statuses, baseline>>

Update == \E post \in FormPosts(CONTEST_STATE) : UpdatePosted(post)

AddTeamNamed(name) ==
    /\ pc = "serving"
    /\ Len(CONTEST_STATE.board_data) < MaxTeams
    /\ CONTEST_STATE' = add_team(CONTEST_STATE, name)
    /\ UNCHANGED <<log, sorting, observed, teams, problems, submissions, pc, idx, final_statuses, baseline, injected>>

AddTeam == \E name \in FormNames : AddTeamNamed(name)

Reset ==
    /\ pc = "serving"
    /\ CONTEST_STATE' = reset_board(CONTEST_STATE)
    /\ injected' = <<>>
    /\ UNCHANGED <<log, sorting, observed, teams, problems, submissions, pc, idx, final_statuses, baseline>>

Next == Update \/ AddTeam \/ Reset

Spec == Init /\ [][Next]_vars

---------------------------------------------------------------------------
(* SpecThreads: the same handlers under app.run(debug = True), app.py:252.  The
   development server answers each request in a thread of its own and the
   handlers take no lock, so a GET /api/board can run between any two statements
   of a handler that is rewriting CONTEST_STATE.  One writing request is in
   flight at a time; pc is the statement it has reached, idx its loop index. *)

ThreadContests == {c \in Contests : c.submissions # <<>>}

InitThreads ==
    /\ \E c \in ThreadContests :
        /\ teams = c.teams
        /\ problems = c.problems
        /\ submissions = SortByTime(c.submissions)
        /\ baseline = Resolve(c.teams, c.problems, c.submissions)
        /\ CONTEST_STATE = load_and_initialize_board(c.teams, c.problems, c.submissions)
        /\ log = [found |-> c.found, lines |-> c.submissions]
    /\ sorting = <<>>
    /\ observed = <<>>
    /\ pc = "serving"
    /\ idx = 0
    /\ final_statuses = <<>>
    /\ injected = <<>>

\* update_submission, lines 175-209, up to the call of recalculate_board
BeginUpdate ==
    /\ pc = "serving"
    /\ Len(injected) < MaxInject
    /\ \E post \in FormPosts(CONTEST_STATE) :
        /\ injected' = Append(injected, post)
        /\ CONTEST_STATE' = [CONTEST_STATE EXCEPT !.board_data = PatchBoard(CONTEST_STATE, post)]
    /\ pc' = "totals"
    /\ idx' = 1
    /\ observed' = <<>>
    /\ UNCHANGED <<log, sorting, teams, problems, submissions, final_statuses, baseline>>

\* add_team with a name, lines 220-237, up to the call of recalculate_board (with an
\* empty name the handler changes nothing)
BeginAddTeam ==
    /\ pc = "serving"
    /\ Len(CONTEST_STATE.board_data) < MaxTeams
    /\ \E name \in FormNames \ {""} :
        CONTEST_STATE' = [CONTEST_STATE EXCEPT
                             !.board_data = Append(@, NewTeam(CONTEST_STATE, name))]
    /\ pc' = "totals"
    /\ idx' = 1
    /\ observed' = <<>>
    /\ UNCHANGED <<log, sorting, teams, problems, submissions, final_statuses, baseline, injected>>

\* reset_board, line 246
BeginReset ==
    /\ pc = "serving"
    /\ CONTEST_STATE' = [CONTEST_STATE EXCEPT !.board_data = CONTEST_STATE.original_data]
    /\ injected' = <<>>
    /\ pc' = "totals"
    /\ idx' = 1
    /\ observed' = <<>>
    /\ UNCHANGED <<log, sorting, teams, problems, submissions, final_statuses, baseline>>

\* recalculate_board, lines 131-139: one turn of the first loop
RecalcTotals ==
    /\ pc = "totals"
    /\ idx <= Len(CONTEST_STATE.board_data)
    /\ CONTEST_STATE' = [CONTEST_STATE EXCEPT !.board_data[idx] = Totals(@)]
    /\ idx' = idx + 1
    /\ observed' = <<>>
    /\ UNCHANGED <<log, sorting, teams, problems, submissions, pc, final_statuses, baseline,
                   injected>>

\* line 140, entry: list.sort takes the items out of the list for the time of the sort,
\* and the key lambda is Python code, between whose calls another thread can run
RecalcSortBegin ==
    /\ pc = "totals"
    /\ idx > Len(CONTEST_STATE.board_data)
    /\ sorting' = CONTEST_STATE.board_data
    /\ CONTEST_STATE' = [CONTEST_STATE EXCEPT !.board_data = <<>>]
    /\ pc' = "sort"
    /\ observed' = <<>>
    /\ UNCHANGED <<log, teams, problems, submissions, idx, final_statuses, baseline, injected>>

\* line 140, return: the sorted items are put back
RecalcSortEnd ==
    /\ pc = "sort"
    /\ CONTEST_STATE' = [CONTEST_STATE EXCEPT !.board_data = SortBoard(sorting)]
    /\ sorting' = <<>>
    /\ pc' = "stats"
    /\ observed' = <<>>
    /\ UNCHANGED <<log, teams, problems, submissions, idx, final_statuses, baseline, injected>>

\* line 141
RecalcStatistics ==
    /\ pc = "stats"
    /\ CONTEST_STATE' = [CONTEST_STATE EXCEPT !.statistics = calculate_statistics(CONTEST_STATE)]
    /\ pc' = "ranks"
    /\ idx' = 1
    /\ observed' = <<>>
    /\ UNCHANGED <<log, sorting, teams, problems, submissions, final_statuses, baseline,
                   injected>>

\* lines 142-150: one turn of the rank loop
RecalcRank ==
    /\ pc = "ranks"
    /\ idx <= Len(CONTEST_STATE.board_data)
    /\ CONTEST_STATE' = [CONTEST_STATE EXCEPT
                             !.board_data[idx].rank = RankAt(CONTEST_STATE.board_data, idx)]
    /\ idx' = idx + 1
    /\ observed' = <<>>
    /\ UNCHANGED <<log, sorting, teams, problems, submissions, pc, final_statuses, baseline,
                   injected>>

\* the handler returns its redirect
RecalcReturn ==
    /\ pc = "ranks"
    /\ idx > Len(CONTEST_STATE.board_data)
    /\ pc' = "serving"
    /\ idx' = 0
    /\ observed' = <<>>
    /\ UNCHANGED <<log, sorting, teams, problems, submissions, final_statuses, baseline,
                   CONTEST_STATE, injected>>

\* GET /api/board in a thread of its own, at whatever statement the writer stands
ReadBoard ==
    /\ observed' = api_board_data(CONTEST_STATE)
    /\ UNCHANGED <<log, sorting, teams, problems, submissions, pc, idx, final_statuses, baseline,
                   CONTEST_STATE, injected>>

NextThreads ==
    \/ BeginUpdate
    \/ BeginAddTeam
    \/ BeginReset
    \/ RecalcTotals
    \/ RecalcSortBegin
    \/ RecalcSortEnd
    \/ RecalcStatistics
    \/ RecalcRank
    \/ RecalcReturn
    \/ ReadBoard

SpecThreads == InitThreads /\ [][NextThreads]_vars

---------------------------------------------------------------------------
(* Claims about the resolver (SpecResolve) *)

IsPair(sub, t, p) == sub.team_id = t /\ sub.prob_id = p

\* the indices of the accepted submissions of a pair, in the walked order
AcceptedAt(subs, t, p) ==
    {i \in 1..Len(subs) : IsPair(subs[i], t, p) /\ IsAccepted(subs[i].status)}

\* the row of team t in a board
RowOf(board, t) == board[CHOOSE i \in 1..Len(board) : board[i].team_id = t]

\* what the claims call the state of a pair in the baseline
PairState(cell) ==
    <<cell.final_is_ac, cell.final_solved_time, cell.final_penalty,
      IF cell.final_is_ac THEN cell.final_attempts_to_ac - 1 ELSE cell.final_attempts_to_ac>>

\* the log without the submissions of pair (t, p) later than time tacc
WithoutLater(subs, t, p, tacc) ==
    SelectSeq(subs, LAMBDA x : ~(IsPair(x, t, p) /\ x.time > tacc))

KnownPairs == {<<t, p>> : t \in TeamIds(teams), p \in DOMAIN problems}

\* C1: once a pair has an accepted submission at time t_acc, the pair's accepted flag,
\* solve time, penalty and rejection count in the returned baseline are those of the
\* same log with every submission of the pair later than t_acc taken out.
C1_AcceptanceFreezes ==
    pc = "done" =>
        \A k \in KnownPairs :
            AcceptedAt(submissions, k[1], k[2]) # {} =>
                LET tacc == submissions[Min(AcceptedAt(submissions, k[1], k[2]))].time
                    cut == Resolve(teams, problems,
                                   WithoutLater(submissions, k[1], k[2], tacc))
                    here == RowOf(baseline[2], k[1]).status[k[2]]
                IN  /\ here.final_is_ac
                    /\ here.final_solved_time = tacc
                    /\ PairState(here) = PairState(RowOf(cut[2], k[1]).status[k[2]])

\* a finished resolve of a log where pair (1, A) is accepted at 60 s and has a later
\* rejection and a later acceptance
C1_Witness ==
    /\ pc = "done"
    /\ \E i, j, k \in 1..Len(submissions) :
        /\ IsPair(submissions[i], 1, "A") /\ submissions[i].status = "OK"
        /\ submissions[i].time = 60
        /\ IsPair(submissions[j], 1, "A") /\ submissions[j].status = "WA"
        /\ submissions[j].time = 200
        /\ IsPair(submissions[k], 1, "A") /\ submissions[k].status = "OK"
        /\ submissions[k].time = 200

\* the rejected submissions of a pair walked before index a
RejectedBefore(subs, t, p, a) ==
    {j \in 1..(a - 1) : IsPair(subs[j], t, p) /\ ~IsAccepted(subs[j].status)}

\* C2: for every pair the baseline marks accepted, the penalty is floor(t / 60) + r * p and
\* the solve time is t, with t the time of the pair's first accepted submission in time
\* order, r the number of its rejected submissions before that one and p the problem's
\* penalty per wrong attempt.
C2_PenaltyFormula ==
    pc = "done" =>
        \A k \in KnownPairs :
            LET cell == RowOf(baseline[2], k[1]).status[k[2]]
                acc == AcceptedAt(submissions, k[1], k[2])
            IN  cell.final_is_ac =>
                    /\ acc # {}
                    /\ cell.final_solved_time = submissions[Min(acc)].time
                    /\ cell.final_penalty =
                           (submissions[Min(acc)].time \div 60)
                           + Cardinality(RejectedBefore(submissions, k[1], k[2], Min(acc)))
                             * problems[k[2]]

\* pair (1, B) accepted at 200 s after two rejections: penalty 3 + 2 * 10
C2_Witness ==
    /\ pc = "done"
    /\ RowOf(baseline[2], 1).status["B"].final_is_ac
    /\ RowOf(baseline[2], 1).status["B"].final_solved_time = 200
    /\ RowOf(baseline[2], 1).status["B"].final_penalty = 23

\* C9: submissions of an unknown team or an unknown problem are dropped: the accumulators
\* and the baseline of a log are those of the log without them.
C9_UnknownIdsDropped ==
    pc = "done" =>
        LET kept == SelectSeq(submissions,
                         LAMBDA x : x.team_id \in {1, 2} /\ x.prob_id \in {"A", "B"})
        IN  /\ final_statuses = WalkFrom(<<>>, kept, 1, teams, problems)
            /\ baseline = Resolve(teams, problems, kept)
            /\ DOMAIN final_statuses \subseteq KnownPairs

\* a finished resolve of a log with a submission of unknown team 9, one of unknown problem
\* Z and an accepted one of a known pair
C9_Witness ==
    /\ pc = "done"
    /\ \E i, j \in 1..Len(submissions) :
        /\ submissions[i].team_id = 9 /\ submissions[i].status = "OK"
        /\ submissions[j].prob_id = "Z"
    /\ RowOf(baseline[2], 1).status["A"].final_is_ac

\* C12: a second resolve gives the baseline of the first, also when it is handed the
\* submission list as the first call left it (sorted in place): same problem ids, same rows
\* in the same order, same cells.
C12_IdempotentResolve ==
    pc = "done" =>
        /\ baseline = Resolve(teams, problems, submissions)
        /\ baseline = Resolve(teams, problems, log.lines)

\* a finished resolve that reordered its list, of a log with a rejection and an acceptance
\* of pair (1, A) at the same second, where the order decides the penalty
C12_Witness ==
    /\ pc = "done"
    /\ submissions # log.lines
    /\ \E i, j \in 1..Len(log.lines) :
        /\ i < j
        /\ log.lines[i] = Sub(1, "A", 60, "WA")
        /\ log.lines[j] = Sub(1, "A", 60, "OK")

\* the lists with the lines of s in another order
Reorderings(s) ==
    {[i \in 1..Len(s) |-> s[f[i]]] : f \in Permutations(1..Len(s))}

DistinctTimes(s) == \A i, j \in 1..Len(s) : i # j => s[i].time # s[j].time

\* C13: for a log whose elapsed times are pairwise distinct, every reordering of the log
\* resolves to the same baseline.
C13_OrderIndependent ==
    pc = "done" =>
        (DistinctTimes(log.lines) =>
            \A q \in Reorderings(log.lines) : Resolve(teams, problems, q) = baseline)

\* a finished resolve of a log that lists pair (1, A) latest line first: accepted at 300 s,
\* accepted at 200 s, rejected at 60 s
C13_Witness ==
    /\ pc = "done"
    /\ log.lines = <<Sub(1, "A", 300, "OK"), Sub(1, "A", 200, "OK"), Sub(1, "A", 60, "WA")>>
    /\ RowOf(baseline[2], 1).status["A"].final_penalty = 23

\* line i of the log is walked before line j: earlier time, or the same time and listed first
WalkedBefore(lines, i, j) ==
    \/ lines[i].time < lines[j].time
    \/ lines[i].time = lines[j].time /\ i < j

\* C17: submissions of a pair with equal elapsed time are processed in their log order: the
\* pair's acceptance is its accepted line that no other accepted line precedes by time or,
\* at the same time, by position in the log, and exactly the rejections that precede that
\* line in the same sense are counted and charged.
C17_StableTies ==
    pc = "done" =>
        \A k \in KnownPairs :
            LET lines == log.lines
                acc == AcceptedAt(lines, k[1], k[2])
                cell == RowOf(baseline[2], k[1]).status[k[2]]
            IN  acc # {} =>
                    LET a == CHOOSE i \in acc : \A j \in acc \ {i} : WalkedBefore(lines, i, j)
                        r == Cardinality({j \in 1..Len(lines) :
                                 /\ IsPair(lines[j], k[1], k[2])
                                 /\ ~IsAccepted(lines[j].status)
                                 /\ WalkedBefore(lines, j, a)})
                    IN  /\ cell.final_is_ac
                        /\ cell.final_solved_time = lines[a].time
                        /\ cell.final_attempts_to_ac = r + 1
                        /\ cell.final_penalty = (lines[a].time \div 60) + r * problems[k[2]]

\* pair (1, A) with a rejection, an acceptance and another rejection, all at 60 s and listed
\* in that order: one rejection is charged, penalty 1 + 20
C17_Witness ==
    /\ pc = "done"
    /\ log.lines = <<Sub(1, "A", 60, "WA"), Sub(1, "A", 60, "OK"), Sub(1, "A", 60, "WA")>>
    /\ RowOf(baseline[2], 1).status["A"].final_penalty = 21
    /\ RowOf(baseline[2], 1).status["A"].final_attempts_to_ac = 2

---------------------------------------------------------------------------
(* The time-slice projector. The repository's Python sources stop at the baseline
   cells with their final_ fields; the projection of a cell at a cutoff is written
   here from section 4.2 of the specification. *)

Cutoffs == {0, 59, 60, 199, 200, 300}

\* the submissions of pair (t, p) with elapsed time <= cutoff
Filtered(subs, t, p, cutoff) ==
    SelectSeq(subs, LAMBDA x : IsPair(x, t, p) /\ x.time <= cutoff)

\* the cell of pair (t, p) as of the cutoff
ProjectCell(cell, subs, t, p, cutoff) ==
    LET filtered == Filtered(subs, t, p, cutoff)
        rejected == SelectSeq(filtered, LAMBDA x : ~IsAccepted(x.status))
    IN  IF cell.final_is_ac /\ cell.final_solved_time <= cutoff
        THEN [cell EXCEPT !.display = <<"+">> \o (IF cell.final_attempts_to_ac > 1
                                                  THEN Str(cell.final_attempts_to_ac - 1)
                                                  ELSE <<>>),
                          !.solved_time = cell.final_solved_time \div 60,
                          !.penalty = cell.final_penalty]
        ELSE IF filtered # <<>>
        THEN [cell EXCEPT !.display = <<"-">> \o Str(Len(rejected))]
        ELSE cell

---------------------------------------------------------------------------
(* Claims about the running application (Spec) *)

board_data == CONTEST_STATE.board_data

Rows == 1..Len(board_data)

SameScore(a, b) == a.solved = b.solved /\ a.penalty = b.penalty

\* C3: on the ranked board, two teams with equal (solved, penalty) have the same rank and a
\* team with strictly more solved problems has a strictly smaller rank, whatever the
\* penalties.
C3_RankTieBreak ==
    \A i, j \in Rows :
        /\ SameScore(board_data[i], board_data[j]) => board_data[i].rank = board_data[j].rank
        /\ board_data[i].solved > board_data[j].solved
              => board_data[i].rank < board_data[j].rank

\* a team with more solved problems and a larger penalty than two teams that tie
C3_Witness ==
    \E i, j, k \in Rows :
        /\ board_data[i].solved > board_data[j].solved
        /\ board_data[i].penalty > board_data[j].penalty
        /\ j # k /\ SameScore(board_data[j], board_data[k])
        /\ injected # <<>>

\* C4: the board is in the order solved descending, penalty ascending; its first row has
\* rank 1; every row's rank is the 1-based index of the first row with its (solved,
\* penalty); no row keeps the rank 0 of the resolver or the 999 of add_team.
C4_RankContiguity ==
    /\ \A i, j \in Rows :
          i < j => \/ board_data[i].solved > board_data[j].solved
                   \/ /\ board_data[i].solved = board_data[j].solved
                      /\ board_data[i].penalty <= board_data[j].penalty
    /\ board_data # <<>> => board_data[1].rank = 1
    /\ \A i \in Rows :
          /\ board_data[i].rank = Min({j \in Rows : SameScore(board_data[j], board_data[i])})
          /\ board_data[i].rank \notin {0, 999}

\* three rows, the first two tied on a solved problem, the third a team added by the
\* operator, ranked 1, 1, 3
C4_Witness ==
    /\ Len(board_data) = 3
    /\ board_data[1].solved = 1
    /\ board_data[1].rank = 1 /\ board_data[2].rank = 1 /\ board_data[3].rank = 3
    /\ board_data[3].team = <<"NewTeam">>

\* the submission a posted form stands for: elapsed seconds = minute * 60
AsSubmission(post) ==
    Sub(post.team_id, post.problem_id, ParseMinute(post.solved_time_min) * 60, post.result)

\* the team set after the registrations: the loaded teams and the rows added since
TeamsOnBoard ==
    LET added == SelectSeq(board_data, LAMBDA r : r.team_id \notin TeamIds(teams))
    IN  teams \o [i \in 1..Len(added) |-> Team(added[i].team_id, "", added[i].team[1])]

\* the resolver on the submission list extended with the posted records
ResolvedAfterPosts ==
    Resolve(TeamsOnBoard, problems,
            submissions \o [i \in 1..Len(injected) |-> AsSubmission(injected[i])])

\* accepted flag, rejection count, solve minute and penalty, as a board cell shows them
ShownState(cell) ==
    <<ShowsAccepted(cell),
      IF cell.display \in {<<>>, <<"+">>} THEN 0
      ELSE IntOf(SubSeq(cell.display, 2, Len(cell.display))),
      IF ShowsAccepted(cell) THEN cell.solved_time ELSE -1,
      IF ShowsAccepted(cell) THEN cell.penalty ELSE 0>>

\* ... and as the resolver's baseline holds them
ResolvedState(cell) ==
    <<cell.final_is_ac,
      IF cell.final_is_ac THEN cell.final_attempts_to_ac - 1 ELSE cell.final_attempts_to_ac,
      IF cell.final_is_ac THEN cell.final_solved_time \div 60 ELSE -1,
      cell.final_penalty>>

\* C5: after any posts to /update, every cell of the board shows the state the resolver
\* computes from the submission list extended with the posted records.
C5_UpdateIsResolve ==
    injected # <<>> =>
        \A i \in Rows : \A pid \in DOMAIN board_data[i].status :
            ShownState(board_data[i].status[pid])
                = ResolvedState(RowOf(ResolvedAfterPosts[2], board_data[i].team_id).status[pid])

\* C6: an acceptance posted with minute m for a cell that is open after r rejections sets
\* the cell's penalty to m + r * p, p being the problem's penalty per wrong attempt.
C6_InjectedPenalty ==
    [][\A post \in FormPosts(CONTEST_STATE) :
          (/\ UpdatePosted(post)
           /\ post.result = "AC"
           /\ post.team_id \in {board_data[i].team_id : i \in Rows}
           /\ post.problem_id \in DOMAIN problems
           /\ ~ShowsAccepted(RowOf(board_data, post.team_id).status[post.problem_id]))
          => RowOf(CONTEST_STATE'.board_data, post.team_id).status[post.problem_id].penalty
                = ParseMinute(post.solved_time_min)
                  + AttemptsShown(RowOf(board_data, post.team_id).status[post.problem_id].display)
                    * problems[post.problem_id]]_vars

\* what a cell shows
Shown(cell) == <<cell.display, cell.solved_time, cell.penalty>>

\* C7: a cell that shows accepted shows the same symbol, solve time and penalty after any
\* post to /update and any team registration.
C7_AcceptedCellFrozen ==
    [][(Update \/ AddTeam) =>
          \A i \in Rows : \A pid \in DOMAIN board_data[i].status :
              ShowsAccepted(board_data[i].status[pid]) =>
                  /\ \E j \in DOMAIN CONTEST_STATE'.board_data :
                        CONTEST_STATE'.board_data[j].team_id = board_data[i].team_id
                  /\ Shown(RowOf(CONTEST_STATE'.board_data, board_data[i].team_id).status[pid])
                        = Shown(board_data[i].status[pid])]_vars

\* an accepted cell that has since been posted an acceptance with another minute: it
\* still shows the first one
C7_Witness ==
    /\ Len(injected) = 2
    /\ injected[1].result = "AC" /\ injected[2].result = "AC"
    /\ injected[1].team_id = injected[2].team_id
    /\ injected[1].problem_id = injected[2].problem_id
    /\ injected[1].solved_time_min = <<"5">> /\ injected[2].solved_time_min = <<"x">>
    /\ \E i \in Rows :
        /\ board_data[i].team_id = injected[1].team_id
        /\ injected[1].problem_id \in DOMAIN board_data[i].status
        /\ Shown(board_data[i].status[injected[1].problem_id]) = <<<<"+">>, 5, 5>>

\* C8: right after the load, every team's solved count is the number of its problems whose
\* terminal status is accepted and its penalty the sum of their baseline penalties.
C8_LoadedTotals ==
    (injected = <<>>
        /\ CONTEST_STATE = load_and_initialize_board(teams, problems, submissions)) =>
        \A i \in Rows :
            LET ac == {pid \in DOMAIN problems : board_data[i].status[pid].final_is_ac}
            IN  /\ board_data[i].solved = Cardinality(ac)
                /\ board_data[i].penalty =
                      SumOver(ac, [pid \in ac |-> board_data[i].status[pid].final_penalty])

BoardIds == {board_data[i].team_id : i \in Rows}

\* what registering team `name` under identifier id does to the board
AddTeamEffect(name, id) ==
    LET before == board_data
        after == CONTEST_STATE'.board_data
    IN  /\ Len(after) = Len(before) + 1
        /\ {after[i].team_id : i \in 1..Len(after)} = BoardIds \cup {id}
        /\ id \notin BoardIds
        /\ RowOf(after, id).solved = 0
        /\ RowOf(after, id).penalty = 0
        /\ RowOf(after, id).team = <<name>>
        /\ DOMAIN RowOf(after, id).status = Range(CONTEST_STATE.problem_ids)
        /\ \A pid \in DOMAIN RowOf(after, id).status :
              Shown(RowOf(after, id).status[pid]) = <<<<>>, 0, 0>>
        /\ RowOf(after, id).rank = Max({after[i].rank : i \in 1..Len(after)})
        /\ \A t \in BoardIds :
              /\ RowOf(after, t).status = RowOf(before, t).status
              /\ RowOf(after, t).solved = RowOf(before, t).solved
              /\ RowOf(after, t).penalty = RowOf(before, t).penalty

AcceptedRows(board, pid) ==
    {i \in 1..Len(board) :
        /\ board[i].status[pid].display # <<>>
        /\ board[i].status[pid].display[1] = "+"}

C15_DataUnavailable ==
    ~log.found =>
        ~(api_board_data(CONTEST_STATE).problems = <<>> /\
          api_board_data(CONTEST_STATE).board = <<>>)

\* the positions of the injected posts for team t and problem p
PostsFor(t, p) ==
    {n \in 1..Len(injected) : injected[n].team_id = t /\ injected[n].problem_id = p}

\* the symbol the claim gives a cell after the posts at positions ps
ClaimedSymbol(ps) ==
    LET acs == {n \in ps : injected[n].result = "AC"}
        firstAc == IF acs = {} THEN Len(injected) + 1 ELSE Min(acs)
        N == Cardinality({n \in ps : injected[n].result # "AC" /\ n < firstAc})
    IN  IF ps = {} THEN <<>>
        ELSE IF acs = {} THEN <<"-">> \o Str(N)
        ELSE IF N = 0 THEN <<"+">>
        ELSE <<"+">> \o Str(N)

\* C18: every cell of the board, untouched at load, shows after the injections made so far:
\* nothing when none was for it, '-N' after N rejections and no acceptance, '+N' ('+' when
\* N = 0) once an acceptance was injected, N the rejections injected before the first one.
C18_CellSymbol ==
    \A i \in Rows : \A pid \in DOMAIN board_data[i].status :
        board_data[i].status[pid].display = ClaimedSymbol(PostsFor(board_data[i].team_id, pid))

\* a cell after a rejection and then an acceptance: it shows +1
C18_Witness ==
    \E i \in Rows : \E pid \in DOMAIN board_data[i].status :
        LET ps == PostsFor(board_data[i].team_id, pid)
        IN  /\ Cardinality(ps) = 2
            /\ injected[Min(ps)].result = "WA"
            /\ injected[Max(ps)].result = "AC"
            /\ board_data[i].status[pid].display = <<"+", "1">>

\* the posts injected so far that name problem pid, whatever their team
InjectedFor(pid) == Cardinality({n \in 1..Len(injected) : injected[n].problem_id = pid})

\* the lines of the log that name problem pid
LoadedFor(pid) == Cardinality({n \in 1..Len(log.lines) : log.lines[n].prob_id = pid})

\* C19: for every problem the Submitted statistic counts the submissions of the log and the
\* injected ones alike, so that Accepted never exceeds Submitted.
C19_SubmittedCountsAll ==
    CONTEST_STATE.statistics # <<>> =>
        \A pid \in Range(CONTEST_STATE.problem_ids) :
            LET submitted == IntOf(CONTEST_STATE.statistics["Submitted"][pid])
            IN  /\ submitted >= LoadedFor(pid) + Cardinality({n \in 1..Len(injected) :
                                    /\ injected[n].problem_id = pid
                                    /\ \E i \in Rows : board_data[i].team_id = injected[n].team_id})
                /\ submitted <= LoadedFor(pid) + InjectedFor(pid)
                /\ CONTEST_STATE.statistics["Accepted"][pid][1] <= submitted

\* the board as it was immediately after loading
LoadedBoard == load_and_initialize_board(teams, problems, log.lines).board_data

\* C20: no request alters the stored original snapshot, and a reset, after whatever
\* injections and added teams, a first one or a later one, leaves the board as it was
\* immediately after loading: same teams, cells, solved counts, penalties, order and ranks.
C20_ResetRestores ==
    [][/\ CONTEST_STATE'.original_data = CONTEST_STATE.original_data
       /\ Reset => CONTEST_STATE'.board_data = LoadedBoard]_vars

\* a board with an injected acceptance and an added team, which differs from the loaded one
\* in its rows and ranks, while the snapshot is still the parsed board and a reset of this
\* state gives the loaded board
C20_Witness ==
    /\ injected # <<>>
    /\ \E i \in Rows : \E pid \in DOMAIN board_data[i].status :
            board_data[i].status[pid].display = <<"+">>
    /\ Len(board_data) > Len(LoadedBoard)
    /\ Len(LoadedBoard) > 0
    /\ CONTEST_STATE.original_data = baseline[2]
    /\ reset_board(CONTEST_STATE).board_data = LoadedBoard

---------------------------------------------------------------------------
(* Claims about interleaved requests (SpecThreads) *)

\* a response whose board is what recalculate_board makes of it, with the statistics of it
WholeBoard(r) ==
    LET b == r.board
    IN  /\ \A i \in 1..Len(b) : b[i].solved = Totals(b[i]).solved /\
                                   b[i].penalty = Totals(b[i]).penalty
        /\ \A i, j \in 1..Len(b) : i < j => KeyLE(b[i], b[j])
        /\ \A i \in 1..Len(b) : b[i].rank = RankAt(b, i)
        /\ r.statistics = calculate_statistics([CONTEST_STATE EXCEPT !.board_data = b])

\* C11: every response of /api/board, also one read while an inject, add-team or reset
\* request is in progress, is a whole board: solved and penalty of every row match its
\* cells, the rows are sorted, the ranks are those of that order and the statistics are
\* those of that board.
C11_NoPartialRead == observed # <<>> => WholeBoard(observed)

\* between requests the state is what the handlers leave when run one at a time
ThreadsQuiescent == pc = "serving" => WholeBoard(api_board_data(CONTEST_STATE))

====
